---- MODULE Spec2Model ----
(***************************************************************************)
(* Model of src/src/main.cpp, the ESP32 BLE client for the WT-0001 fridge: *)
(* the FEFE frame codec (calculateChecksum, decodeFridgeQuerySingleZone,   *)
(* buildQueryCommand, buildBindCommand) and the session driven by loop(),  *)
(* connectToServer() and the BLE callbacks.                                *)
(*                                                                         *)
(* Three specifications share the variables:                               *)
(*   CodecSpec  the decoder applied to frames drawn from a bounded family; *)
(*   Spec       the session with every handler run to completion;          *)
(*   ConcSpec   the session with the BLE task's callbacks interleaved with *)
(*              the statements of loop().                                  *)
(***************************************************************************)
EXTENDS Integers, Sequences, FiniteSets, TLC

(***************************************************************************)
(* Bytes and the codec                                                     *)
(***************************************************************************)

\* uint8_t values
Byte == 0 .. 255

\* A conversion that has lost the int8_t cast: the byte is kept unsigned.
KeepUnsigned(b) == b

\* (int8_t)b, as in lines 129-139
AsInt8(b) == IF b >= 128 THEN b - 256 ELSE b

\* data[i] with the C index i (TLA+ sequences start at 1)
At(buf, i) == buf[i + 1]

\* calculateChecksum(buf, len): the accumulator is a uint32_t; with the frame
\* lengths a notification can carry (a few hundred bytes at most) it never
\* reaches 2^32, so only the final truncation to 16 bits acts.
\* ChecksumLoop is the for loop of lines 89-91 from index i with accumulator
\* sum, unfolded eight iterations at a time: TLC evaluates a recursion on its
\* stack, and one level per byte overflows it near 250 bytes.  The test
\* sum >= 0 is always true; it makes TLC compute the accumulator at each level
\* instead of carrying it as a nested expression.
RECURSIVE ChecksumLoop(_, _, _, _)
ChecksumLoop(buf, len, i, sum) ==
  IF sum >= 0 /\ i + 7 < len
  THEN ChecksumLoop(buf, len, i + 8,
         sum + At(buf, i) + At(buf, i + 1) + At(buf, i + 2) + At(buf, i + 3)
             + At(buf, i + 4) + At(buf, i + 5) + At(buf, i + 6) + At(buf, i + 7))
  ELSE IF i < len THEN ChecksumLoop(buf, len, i + 1, sum + At(buf, i))
  ELSE sum

\* A checksum that returns the whole accumulator, not its low 16 bits.
checksumUntruncated(buf, len) == ChecksumLoop(buf, len, 0, 0)

calculateChecksum(buf, len) == ChecksumLoop(buf, len, 0, 0) % 65536

\* FridgeStatus_t filled from payload = &data[4], lines 123-142
FridgeStatus(data) ==
  [ locked      |-> (At(data, 4 + 0) = 1),
    poweredOn   |-> (At(data, 4 + 1) = 1),
    runMode     |-> At(data, 4 + 2),
    batSaver    |-> At(data, 4 + 3),
    leftTarget  |-> AsInt8(At(data, 4 + 4)),
    tempMax     |-> AsInt8(At(data, 4 + 5)),
    tempMin     |-> AsInt8(At(data, 4 + 6)),
    leftRetDiff |-> At(data, 4 + 7),
    startDelay  |-> At(data, 4 + 8),
    unit        |-> At(data, 4 + 9),
    leftTCHot   |-> AsInt8(At(data, 4 + 10)),
    leftTCMid   |-> AsInt8(At(data, 4 + 11)),
    leftTCCold  |-> AsInt8(At(data, 4 + 12)),
    leftTCHalt  |-> AsInt8(At(data, 4 + 13)),
    leftCurrent |-> AsInt8(At(data, 4 + 14)),
    batPercent  |-> At(data, 4 + 15),
    batVolInt   |-> At(data, 4 + 16),
    batVolDec   |-> At(data, 4 + 17) ]

\* The result of one call: the bool returned, the line of the return
\* statement taken, and the caller's record after the call.
Returned(ok, line, status) == [ok |-> ok, line |-> line, status |-> status]

\* A decoder that has lost the command test of lines 107-110.
decodeWithoutCommandTest(data, status) ==
  LET length == Len(data) IN
  IF length < 24 THEN Returned(FALSE, 102, status)
  ELSE IF At(data, 0) # 254 \/ At(data, 1) # 254 THEN Returned(FALSE, 103, status)
  ELSE LET offsetSum == (length - 2) % 65536
           sumPacket == (At(data, offsetSum) * 256 + At(data, offsetSum + 1)) % 65536
           sumCalc   == calculateChecksum(data, offsetSum)
       IN IF sumCalc # sumPacket THEN Returned(FALSE, 119, status)
          ELSE Returned(TRUE, 144, FridgeStatus(data))

\* A decoder that has lost the checksum test of lines 117-120.
decodeWithoutChecksumTest(data, status) ==
  LET length == Len(data) IN
  IF length < 24 THEN Returned(FALSE, 102, status)
  ELSE IF At(data, 0) # 254 \/ At(data, 1) # 254 THEN Returned(FALSE, 103, status)
  ELSE IF At(data, 3) # 1 THEN Returned(FALSE, 109, status)
  ELSE Returned(TRUE, 144, FridgeStatus(data))

\* A decoder that fills the caller's record before the checksum test.
decodeWritesEarly(data, status) ==
  LET length == Len(data) IN
  IF length < 24 THEN Returned(FALSE, 102, status)
  ELSE IF At(data, 0) # 254 \/ At(data, 1) # 254 THEN Returned(FALSE, 103, status)
  ELSE IF At(data, 3) # 1 THEN Returned(FALSE, 109, status)
  ELSE LET offsetSum == (length - 2) % 65536
           sumPacket == (At(data, offsetSum) * 256 + At(data, offsetSum + 1)) % 65536
           sumCalc   == calculateChecksum(data, offsetSum)
       IN IF sumCalc # sumPacket THEN Returned(FALSE, 119, FridgeStatus(data))
          ELSE Returned(TRUE, 144, FridgeStatus(data))

\* decodeFridgeQuerySingleZone(data, length, status), lines 100-145.
\* offsetSum is a uint16_t; the shift and or of line 115 build a 16-bit value.
decodeFridgeQuerySingleZone(data, status) ==
  LET length == Len(data) IN
  IF length < 24 THEN Returned(FALSE, 102, status)
  ELSE IF At(data, 0) # 254 \/ At(data, 1) # 254 THEN Returned(FALSE, 103, status)
  ELSE LET declaredLen == At(data, 2)
           cmd         == At(data, 3)
       IN IF cmd # 1 THEN Returned(FALSE, 109, status)
          ELSE IF length < 24 THEN Returned(FALSE, 113, status)
          ELSE LET offsetSum == (length - 2) % 65536
                   sumPacket == (At(data, offsetSum) * 256 + At(data, offsetSum + 1)) % 65536
                   sumCalc   == calculateChecksum(data, offsetSum)
               IN IF sumCalc # sumPacket THEN Returned(FALSE, 119, status)
                  ELSE Returned(TRUE, 144, FridgeStatus(data))

\* std::vector<uint8_t>::clear() and push_back()
VecClear(v) == SubSeq(v, 1, 0)
VecPush(v, b) == Append(v, b)

\* buildQueryCommand(packet), lines 151-160
buildQueryCommand(packet) ==
  VecPush(VecPush(VecPush(VecPush(VecPush(VecPush(VecClear(packet),
    254), 254), 3), 1), 2), 0)

\* A Bind builder that has lost packet.clear() of line 167.
buildBindAppending(packet) ==
  VecPush(VecPush(VecPush(VecPush(VecPush(VecPush(VecPush(packet,
    254), 254), 3), 1), 2), 0), 255)

\* buildBindCommand(packet), lines 166-176
buildBindCommand(packet) ==
  VecPush(VecPush(VecPush(VecPush(VecPush(VecPush(VecPush(VecClear(packet),
    254), 254), 3), 1), 2), 0), 255)

(***************************************************************************)
(* unsigned long (32 bits on the ESP32) as two 16-bit halves, because the  *)
(* integers of TLC are 32-bit signed: value = hi * 2^16 + lo.               *)
(***************************************************************************)

U32(hi, lo) == [hi |-> hi, lo |-> lo]

\* a + d mod 2^32, for a small non-negative d
U32Add(a, d) ==
  LET lo == a.lo + d IN
  U32((a.hi + (lo \div 65536)) % 65536, lo % 65536)

\* A subtraction that stops at 0 instead of wrapping.
U32SubSaturating(a, b) ==
  IF a.hi > b.hi \/ (a.hi = b.hi /\ a.lo >= b.lo)
  THEN LET lo     == a.lo - b.lo
           borrow == IF lo < 0 THEN 1 ELSE 0
       IN U32(a.hi - b.hi - borrow, (lo + 65536) % 65536)
  ELSE U32(0, 0)

\* a - b mod 2^32
U32Sub(a, b) ==
  LET lo     == a.lo - b.lo
      borrow == IF lo < 0 THEN 1 ELSE 0
  IN U32((a.hi - b.hi - borrow + 2 * 65536) % 65536, (lo + 65536) % 65536)

\* a >= b on unsigned 32-bit values
U32Geq(a, b) == a.hi > b.hi \/ (a.hi = b.hi /\ a.lo >= b.lo)

\* const unsigned long QUERY_INTERVAL_MS = 60000;
QUERY_INTERVAL_MS == 60000

\* pBLEScan->start(5): the scan blocks for 5 s unless onResult stops it
SCAN_SECONDS == 5

\* delay(100) at the end of loop()
LOOP_DELAY_MS == 100

(***************************************************************************)
(* State                                                                   *)
(***************************************************************************)

VARIABLES
  \* globals of main.cpp, lines 44-56
  connected, doConnect,
  pRemoteCharacteristicWrite, pRemoteCharacteristicNotify,
  lastQueryMillis,
  g_lastNotificationData, g_newDataAvailable,
  \* loop(): the bytes passed to the decoder on this pass (<<>> when the pass
  \* has decoded nothing, else <<bytes>>) and the bool it returned
  decoded, decodeOk,
  \* the BLE stack and the board
  clock,             \* millis()
  linkUp,            \* pClient holds an open link
  notifyRegistered,  \* registerForNotify(notifyCallback) has been called
  sent,              \* frames handed to writeValue during this pass of loop()
  connFrames,        \* frames handed to writeValue since pClient->connect last succeeded
  attempts,          \* calls of connectToServer during this pass of loop()
  fresh,             \* the buffer holds a whole notification that no decode has read
  \* positions of the two tasks (ConcSpec): the loop task and the BLE task
  \* inside notifyCallback, with its arguments and loop index
  pc, cbPc, cbData, cbI,
  \* history
  elapsed,           \* ms since the initial state, not wrapped
  ticks,             \* passes of loop() started
  arrivals,          \* payloads of the notifyCallback calls completed since the last drain
  delivered,         \* payloads notifyCallback has been called with
  polled,            \* a Query has been sent since connected was last set
  lastQueryAt,       \* elapsed at the last Query, -1 before the first
  connSinceQuery,    \* connectToServer has succeeded since the last Query
  ev,                \* what the last handler did (Spec)
  \* one decoder call (CodecSpec)
  rxData, rxStatus, rxResult, rxStage, rxPrev, rxFlip,
  \* one calculateChecksum call: <<>> before it, else <<the value returned>>
  rxSum

progVars == <<connected, doConnect, pRemoteCharacteristicWrite,
              pRemoteCharacteristicNotify, lastQueryMillis,
              g_lastNotificationData, g_newDataAvailable, decoded, decodeOk,
              clock, linkUp, notifyRegistered, sent, connFrames, attempts,
              fresh, elapsed>>
taskVars == <<pc, cbPc, cbData, cbI>>
histVars == <<ticks, arrivals, delivered, polled, lastQueryAt, connSinceQuery, ev>>
codecVars == <<rxData, rxStatus, rxResult, rxStage, rxPrev, rxFlip, rxSum>>
vars == <<progVars, taskVars, histVars, codecVars>>

\* a BLERemoteCharacteristic*: nullptr, or the object getCharacteristic returned
NULLPTR == "nullptr"
CHARACTERISTIC == "characteristic"

\* The program state as one record, so that the statements of the handlers
\* are functions from state to state that Spec composes and ConcSpec steps.
Cur ==
  [ connected |-> connected, doConnect |-> doConnect,
    pRemoteCharacteristicWrite |-> pRemoteCharacteristicWrite,
    pRemoteCharacteristicNotify |-> pRemoteCharacteristicNotify,
    lastQueryMillis |-> lastQueryMillis,
    g_lastNotificationData |-> g_lastNotificationData,
    g_newDataAvailable |-> g_newDataAvailable,
    decoded |-> decoded, decodeOk |-> decodeOk,
    clock |-> clock, linkUp |-> linkUp, notifyRegistered |-> notifyRegistered,
    sent |-> sent, connFrames |-> connFrames, attempts |-> attempts,
    fresh |-> fresh, elapsed |-> elapsed ]

Commit(s) ==
  /\ connected' = s.connected
  /\ doConnect' = s.doConnect
  /\ pRemoteCharacteristicWrite' = s.pRemoteCharacteristicWrite
  /\ pRemoteCharacteristicNotify' = s.pRemoteCharacteristicNotify
  /\ lastQueryMillis' = s.lastQueryMillis
  /\ g_lastNotificationData' = s.g_lastNotificationData
  /\ g_newDataAvailable' = s.g_newDataAvailable
  /\ decoded' = s.decoded
  /\ decodeOk' = s.decodeOk
  /\ clock' = s.clock
  /\ linkUp' = s.linkUp
  /\ notifyRegistered' = s.notifyRegistered
  /\ sent' = s.sent
  /\ connFrames' = s.connFrames
  /\ attempts' = s.attempts
  /\ fresh' = s.fresh
  /\ elapsed' = s.elapsed

\* time passing while the loop task is blocked
Wait(s, ms) == [s EXCEPT !.clock = U32Add(@, ms), !.elapsed = @ + ms]

\* pRemoteCharacteristicWrite->writeValue(data, size, false)
writeValue(s, frame) ==
  [s EXCEPT !.sent = Append(@, frame), !.connFrames = Append(@, frame)]

(***************************************************************************)
(* The callbacks                                                           *)
(***************************************************************************)

\* A callback that keeps what the buffer held.
notifyKeep(s) == s

\* notifyCallback, line 190
notifyClear(s) ==
  [s EXCEPT !.g_lastNotificationData = VecClear(@), !.fresh = FALSE]

\* notifyCallback, line 194, one pass of the copy loop
notifyPush(s, pData, i) ==
  [s EXCEPT !.g_lastNotificationData = VecPush(@, At(pData, i))]

\* A callback that returns without raising the pending flag.
notifyFlagLost(s) == [s EXCEPT !.fresh = TRUE]

\* notifyCallback, line 198
notifyFlag(s) == [s EXCEPT !.g_newDataAvailable = TRUE, !.fresh = TRUE]

RECURSIVE notifyCopy(_, _, _)
notifyCopy(s, pData, i) ==
  IF i < Len(pData) THEN notifyCopy(notifyPush(s, pData, i), pData, i + 1)
  ELSE s

\* A callback that appends to the buffer without clearing it first.
notifyCallbackNoClear(s, pData) == notifyFlag(notifyCopy(s, pData, 0))

\* notifyCallback(pBLERemoteCharacteristic, pData, length, isNotify), lines 183-199
notifyCallback(s, pData) == notifyFlag(notifyCopy(notifyClear(s), pData, 0))

\* MyAdvertisedDeviceCallbacks::onResult, lines 205-215; isTarget is
\* haveName() && getName() == TARGET_DEVICE_NAME
onResult(s, isTarget) ==
  IF isTarget THEN [s EXCEPT !.doConnect = TRUE] ELSE s

\* MyClientCallback::onDisconnect, lines 225-228
onDisconnect(s) == [s EXCEPT !.connected = FALSE]

\* pClient->disconnect(): the link closes and the stack reports it
clientDisconnect(s) == onDisconnect([s EXCEPT !.linkUp = FALSE])

(***************************************************************************)
(* connectToServer                                                         *)
(***************************************************************************)

\* What getService / getCharacteristic / canNotify answer, lines 254-286
Resolved == {"notify", "noNotifySupport"}
NotResolved == {"noService", "noWrite", "noNotify"}
Discoveries == Resolved \cup NotResolved

\* lines 243-251: createClient, setClientCallbacks, connect
ctsConnect(s, linkOk) ==
  IF linkOk
  THEN [s EXCEPT !.attempts = @ + 1, !.linkUp = TRUE, !.connFrames = <<>>]
  ELSE [s EXCEPT !.attempts = @ + 1]

\* lines 254-286: the service, the two characteristics, the registration
ctsDiscover(s, found) ==
  CASE found = "noService" -> clientDisconnect(s)
    [] found = "noWrite" ->
         clientDisconnect([s EXCEPT !.pRemoteCharacteristicWrite = NULLPTR])
    [] found = "noNotify" ->
         clientDisconnect([s EXCEPT !.pRemoteCharacteristicWrite = CHARACTERISTIC,
                                    !.pRemoteCharacteristicNotify = NULLPTR])
    [] found = "notify" ->
         [s EXCEPT !.pRemoteCharacteristicWrite = CHARACTERISTIC,
                   !.pRemoteCharacteristicNotify = CHARACTERISTIC,
                   !.notifyRegistered = TRUE]
    [] found = "noNotifySupport" ->
         [s EXCEPT !.pRemoteCharacteristicWrite = CHARACTERISTIC,
                   !.pRemoteCharacteristicNotify = CHARACTERISTIC]

\* line 288
ctsSetConnected(s) == [s EXCEPT !.connected = TRUE]

\* lines 291-296
ctsBind(s) == writeValue(s, buildBindCommand(<<>>))

\* A timer armed a full interval away: lastQueryMillis = millis().
ctsTimerFromNow(s) == [s EXCEPT !.lastQueryMillis = s.clock]

\* line 299: lastQueryMillis = millis() - QUERY_INTERVAL_MS
ctsTimer(s) ==
  [s EXCEPT !.lastQueryMillis = U32Sub(s.clock, U32(0, QUERY_INTERVAL_MS))]

\* A connectToServer that sets connected as soon as the link is up and
\* returns from a failed discovery without closing the link.
connectToServerEager(s, linkOk, found) ==
  IF ~linkOk THEN ctsConnect(s, FALSE)
  ELSE LET a == ctsSetConnected(ctsConnect(s, TRUE))
           b == [ctsDiscover(a, found) EXCEPT !.connected = a.connected,
                                              !.linkUp = a.linkUp]
       IN IF found \in NotResolved THEN b ELSE ctsTimer(ctsBind(b))

\* connectToServer(pAddress), lines 239-302
connectToServer(s, linkOk, found) ==
  IF ~linkOk THEN ctsConnect(s, FALSE)
  ELSE LET a == ctsDiscover(ctsConnect(s, TRUE), found) IN
       IF found \in NotResolved THEN a
       ELSE ctsTimer(ctsBind(ctsSetConnected(a)))

(***************************************************************************)
(* loop()                                                                  *)
(***************************************************************************)

\* lines 325-329: the scan blocks the loop task; onResult runs meanwhile and,
\* on the target, stops the scan after foundAfter ms
loopScan(s, target, foundAfter) ==
  IF ~s.connected /\ ~s.doConnect
  THEN IF target THEN Wait(onResult(s, TRUE), foundAfter)
       ELSE Wait(s, SCAN_SECONDS * 1000)
  ELSE s

\* A step 2 that clears doConnect only when the attempt succeeded.
loopConnectKeepFlag(s, linkOk, found) ==
  IF s.doConnect
  THEN LET a == connectToServer(s, linkOk, found)
       IN [a EXCEPT !.doConnect = ~a.connected]
  ELSE s

\* lines 332-335
loopConnect(s, linkOk, found) ==
  IF s.doConnect
  THEN [connectToServer(s, linkOk, found) EXCEPT !.doConnect = FALSE]
  ELSE s

\* A gate that has lost the test of connected.
loopQueryUngated(s) ==
  IF s.pRemoteCharacteristicWrite # NULLPTR
  THEN LET now == s.clock IN
       IF U32Geq(U32Sub(now, s.lastQueryMillis), U32(0, QUERY_INTERVAL_MS))
       THEN writeValue([s EXCEPT !.lastQueryMillis = now], buildQueryCommand(<<>>))
       ELSE s
  ELSE s

\* A gate that compares with > instead of >=.
loopQueryStrict(s) ==
  IF s.connected /\ s.pRemoteCharacteristicWrite # NULLPTR
  THEN LET now == s.clock IN
       IF ~U32Geq(U32(0, QUERY_INTERVAL_MS), U32Sub(now, s.lastQueryMillis))
       THEN writeValue([s EXCEPT !.lastQueryMillis = now], buildQueryCommand(<<>>))
       ELSE s
  ELSE s

\* A gate that sends without recording when it sent.
loopQueryNoStamp(s) ==
  IF s.connected /\ s.pRemoteCharacteristicWrite # NULLPTR
  THEN LET now == s.clock IN
       IF U32Geq(U32Sub(now, s.lastQueryMillis), U32(0, QUERY_INTERVAL_MS))
       THEN writeValue(s, buildQueryCommand(<<>>))
       ELSE s
  ELSE s

\* lines 338-349
loopQuery(s) ==
  IF s.connected /\ s.pRemoteCharacteristicWrite # NULLPTR
  THEN LET now == s.clock IN
       IF U32Geq(U32Sub(now, s.lastQueryMillis), U32(0, QUERY_INTERVAL_MS))
       THEN writeValue([s EXCEPT !.lastQueryMillis = now], buildQueryCommand(<<>>))
       ELSE s
  ELSE s

\* FridgeStatus_t st; of line 357 is not initialised: whatever the stack holds
StackStatus == FridgeStatus([i \in 1 .. 24 |-> 0])

\* line 353
loopReset(s) == [s EXCEPT !.g_newDataAvailable = FALSE]

\* lines 357-358: .data() and .size() of the buffer as it is at this moment
loopDecode(s) ==
  [s EXCEPT !.decoded = <<s.g_lastNotificationData>>,
            !.fresh = FALSE,
            !.decodeOk =
               decodeFridgeQuerySingleZone(s.g_lastNotificationData, StackStatus).ok]

\* lines 352-358
loopDrain(s) ==
  IF s.g_newDataAvailable THEN loopDecode(loopReset(s)) ELSE s

\* line 415, and the time the pass itself took
loopDelay(s, ms) == Wait(s, ms)

\* a new pass of loop(): nothing sent or decoded yet
loopBegin(s) ==
  [s EXCEPT !.sent = <<>>, !.attempts = 0, !.decoded = <<>>, !.decodeOk = FALSE]

(***************************************************************************)
(* Inputs and bounds                                                       *)
(***************************************************************************)

\* the sum of b[lo] .. b[hi], by halves
RECURSIVE SumRange(_, _, _)
SumRange(b, lo, hi) ==
  IF lo > hi THEN 0
  ELSE IF lo = hi THEN b[lo]
  ELSE LET mid == (lo + hi) \div 2
       IN SumRange(b, lo, mid) + SumRange(b, mid + 1, hi)

\* the sum of the bytes of b, as a number
SumBytes(b) == SumRange(b, 1, Len(b))

\* FE FE len 01 + payload + the sum of those bytes, high byte first
MkFrame(declaredLen, payload) ==
  LET body == <<254, 254, declaredLen, 1>> \o payload
      sum  == SumBytes(body) % 65536
  IN body \o <<sum \div 256, sum % 256>>

PayloadTypical == <<0, 1, 0, 1, 4, 20, 236, 2, 0, 0, 0, 0, 0, 0, 5, 100, 12, 8>>
PayloadOther == <<1, 1, 1, 2, 251, 10, 246, 1, 3, 1, 255, 128, 127, 0, 130, 55, 11, 3>>
PayloadZero == [i \in 1 .. 18 |-> 0]
PayloadFF == [i \in 1 .. 18 |-> 255]

\* what the fridge may notify
Notifications == {MkFrame(20, PayloadTypical), MkFrame(20, PayloadOther)}

\* millis() in the initial state: the board may have been scanning, finding
\* nothing, for any time; the second value is 30 s before the counter wraps
StartClocks == {U32(0, 0), U32(65535, 65536 - 30000)}

\* how long after its start a scan reports the fridge (ms)
FoundAfter == {1200}

\* how long a pass of loop() lasts: delay(100), or that and idle waiting
PassTimes == {LOOP_DELAY_MS, 59900}

\* passes of loop() explored
MaxTicks == 3

\* notifications between two drains explored
MaxPending == 2

(***************************************************************************)
(* History                                                                 *)
(***************************************************************************)

CtsPcs == {"cts_connect", "cts_discover", "cts_setconnected", "cts_bind", "cts_timer"}

\* the phase of the session, read off the program state
Phase ==
  IF connected THEN (IF polled THEN "Polling" ELSE "Bound")
  ELSE IF doConnect \/ pc \in CtsPcs THEN "Connecting"
  ELSE "Disconnected"

NoGate == [connected |-> FALSE, write |-> NULLPTR, now |-> U32(0, 0), last |-> U32(0, 0)]

NoEv ==
  [ op |-> "none", phase |-> "Disconnected", scanned |-> FALSE, attempt |-> "none",
    connected |-> FALSE, connSent |-> <<>>, gate |-> NoGate, queried |-> FALSE,
    lastAtStart |-> U32(0, 0), gap |-> -1, sinceQuery |-> -1,
    reconnected |-> FALSE,
    arrivals |-> <<>>, drained |-> <<>>, payload |-> <<>> ]

(***************************************************************************)
(* Initial state: the globals as initialised at lines 44-56                *)
(***************************************************************************)

SessionInit ==
  /\ connected = FALSE /\ doConnect = FALSE
  /\ pRemoteCharacteristicWrite = NULLPTR
  /\ pRemoteCharacteristicNotify = NULLPTR
  /\ lastQueryMillis = U32(0, 0)
  /\ g_lastNotificationData = <<>>
  /\ g_newDataAvailable = FALSE
  /\ decoded = <<>> /\ decodeOk = FALSE
  /\ linkUp = FALSE /\ notifyRegistered = FALSE
  /\ sent = <<>> /\ connFrames = <<>> /\ attempts = 0 /\ fresh = FALSE
  /\ pc = "scan" /\ cbPc = "idle" /\ cbData = <<>> /\ cbI = 0
  /\ elapsed = 0 /\ ticks = 0
  /\ arrivals = <<>> /\ delivered = {}
  /\ polled = FALSE /\ lastQueryAt = -1 /\ connSinceQuery = FALSE
  /\ ev = NoEv

CodecIdle ==
  /\ rxData = <<>> /\ rxStatus = StackStatus
  /\ rxResult = <<>> /\ rxStage = "idle" /\ rxPrev = <<>> /\ rxFlip = <<>>
  /\ rxSum = <<>>

Init ==
  /\ SessionInit
  /\ clock \in StartClocks
  /\ CodecIdle

\* An answer the pass never asks for is not enumerated: no scan, no target;
\* no connection attempt, no answers; no link, no discovery.
Consulted(target, linkOk, found) ==
  /\ (connected \/ doConnect) => ~target
  /\ (~target /\ ~doConnect) => (linkOk /\ found = "notify")
  /\ ~linkOk => found = "noService"

(***************************************************************************)
(* Spec: every handler runs to completion                                  *)
(***************************************************************************)

\* One pass of loop(), lines 323-416.  target: the scan hears the fridge;
\* linkOk, found: what connect and the discovery answer; ms: the time the
\* pass takes.
Tick(target, foundAfter, linkOk, found, ms) ==
  /\ pc = "scan" /\ cbPc = "idle"
  /\ ticks < MaxTicks
  /\ Consulted(target, linkOk, found)
  /\ \E s0 \in {loopBegin(Cur)} :
     \E s1 \in {loopScan(s0, target, foundAfter)} :
     \E s2 \in {loopConnect(s1, linkOk, found)} :
     \E s3 \in {loopQuery(s2)} :
     \E s4 \in {loopDrain(s3)} :
     \E s5 \in {loopDelay(s4, ms)} :
     LET tried   == s1.doConnect
         success == tried /\ linkOk /\ found \in Resolved
         queried == Len(s3.sent) > Len(s2.sent)
         recon   == connSinceQuery \/ success
     IN /\ Commit(s5)
        /\ ticks' = ticks + 1
        /\ arrivals' = <<>>
        /\ polled' = IF queried THEN TRUE ELSE IF success THEN FALSE ELSE polled
        /\ lastQueryAt' = IF queried THEN s3.elapsed ELSE lastQueryAt
        /\ connSinceQuery' = IF queried THEN FALSE ELSE recon
        /\ ev' = [ op |-> "loop", phase |-> Phase,
                   scanned |-> (~s0.connected /\ ~s0.doConnect),
                   attempt |-> IF ~tried THEN "none"
                               ELSE IF ~linkOk THEN "connectFailed" ELSE found,
                   connected |-> s2.connected,
                   connSent |-> s2.sent,
                   gate |-> [connected |-> s2.connected,
                             write |-> s2.pRemoteCharacteristicWrite,
                             now |-> s2.clock, last |-> s2.lastQueryMillis],
                   queried |-> queried,
                   lastAtStart |-> s0.lastQueryMillis,
                   gap |-> IF queried /\ lastQueryAt >= 0
                           THEN s3.elapsed - lastQueryAt ELSE -1,
                   sinceQuery |-> IF lastQueryAt >= 0
                                  THEN s2.elapsed - lastQueryAt ELSE -1,
                   reconnected |-> recon,
                   arrivals |-> arrivals,
                   drained |-> s4.decoded,
                   payload |-> <<>> ]
  /\ UNCHANGED <<taskVars, delivered, codecVars>>

\* The BLE task delivers a notification: notifyCallback, whole.
Notify(pData) ==
  /\ pc = "scan" /\ cbPc = "idle"
  /\ notifyRegistered
  /\ Len(arrivals) < MaxPending
  /\ \E s \in {notifyCallback(Cur, pData)} : Commit(s)
  /\ arrivals' = Append(arrivals, pData)
  /\ delivered' = delivered \cup {pData}
  /\ ev' = [NoEv EXCEPT !.op = "notify", !.phase = Phase, !.payload = pData]
  /\ UNCHANGED <<taskVars, ticks, polled, lastQueryAt, connSinceQuery, codecVars>>

\* The link drops and the stack calls onDisconnect.
Disconnect ==
  /\ pc = "scan" /\ cbPc = "idle"
  /\ linkUp
  /\ \E s \in {onDisconnect([Cur EXCEPT !.linkUp = FALSE])} : Commit(s)
  /\ ev' = [NoEv EXCEPT !.op = "disconnect", !.phase = Phase]
  /\ UNCHANGED <<taskVars, ticks, arrivals, delivered, polled, lastQueryAt,
                 connSinceQuery, codecVars>>

Next ==
  \/ \E target \in BOOLEAN, foundAfter \in FoundAfter, linkOk \in BOOLEAN,
        found \in Discoveries, ms \in PassTimes :
       Tick(target, foundAfter, linkOk, found, ms)
  \/ \E pData \in Notifications : Notify(pData)
  \/ Disconnect

Spec == Init /\ [][Next]_vars

(***************************************************************************)
(* ConcSpec: the BLE task runs notifyCallback and onDisconnect while the   *)
(* loop task is anywhere in loop().  Neither the buffer nor the flags are  *)
(* guarded, so the statements of the two tasks interleave freely.  A read  *)
(* of the vector while the other task writes it is a data race; the model  *)
(* takes the outcome in which the read sees the elements pushed so far.    *)
(***************************************************************************)

\* passes of loop() explored in ConcSpec
ConcTicks == 2

\* answers of the discovery explored in ConcSpec
ConcDiscoveries == {"notify", "noNotify"}

ConcInit ==
  /\ SessionInit
  /\ clock = U32(0, 0)
  /\ CodecIdle

\* return from connectToServer to line 334, then on to line 338
ReturnToLoop(s) == [s EXCEPT !.doConnect = FALSE]

\* lines 325-329
CLoopScan(target, foundAfter) ==
  /\ pc = "scan"
  /\ ticks < ConcTicks
  /\ (connected \/ doConnect) => ~target
  /\ \E s \in {loopScan(loopBegin(Cur), target, foundAfter)} : Commit(s)
  /\ pc' = "connect"
  /\ ticks' = ticks + 1
  /\ UNCHANGED <<cbPc, cbData, cbI, arrivals, delivered, polled, lastQueryAt,
                 connSinceQuery, ev, codecVars>>

\* line 332
CLoopConnect ==
  /\ pc = "connect"
  /\ pc' = IF doConnect THEN "cts_connect" ELSE "query"
  /\ UNCHANGED <<progVars, cbPc, cbData, cbI, histVars, codecVars>>

\* lines 243-251
CCtsConnect(linkOk) ==
  /\ pc = "cts_connect"
  /\ \E s \in {ctsConnect(Cur, linkOk)} :
       IF linkOk THEN Commit(s) /\ pc' = "cts_discover"
       ELSE Commit(ReturnToLoop(s)) /\ pc' = "query"
  /\ UNCHANGED <<cbPc, cbData, cbI, histVars, codecVars>>

\* lines 254-286; nothing is resolved over a link that has dropped
CCtsDiscover(found) ==
  /\ pc = "cts_discover"
  /\ found \in Resolved => linkUp
  /\ \E s \in {ctsDiscover(Cur, found)} :
       IF found \in Resolved THEN Commit(s) /\ pc' = "cts_setconnected"
       ELSE Commit(ReturnToLoop(s)) /\ pc' = "query"
  /\ UNCHANGED <<cbPc, cbData, cbI, histVars, codecVars>>

\* line 288
CCtsSetConnected ==
  /\ pc = "cts_setconnected"
  /\ \E s \in {ctsSetConnected(Cur)} : Commit(s)
  /\ pc' = "cts_bind"
  /\ polled' = FALSE
  /\ UNCHANGED <<cbPc, cbData, cbI, ticks, arrivals, delivered, lastQueryAt,
                 connSinceQuery, ev, codecVars>>

\* lines 291-296
CCtsBind ==
  /\ pc = "cts_bind"
  /\ \E s \in {ctsBind(Cur)} : Commit(s)
  /\ pc' = "cts_timer"
  /\ UNCHANGED <<cbPc, cbData, cbI, histVars, codecVars>>

\* lines 299-301, and line 334
CCtsTimer ==
  /\ pc = "cts_timer"
  /\ \E s \in {ReturnToLoop(ctsTimer(Cur))} : Commit(s)
  /\ pc' = "query"
  /\ connSinceQuery' = TRUE
  /\ UNCHANGED <<cbPc, cbData, cbI, ticks, arrivals, delivered, polled,
                 lastQueryAt, ev, codecVars>>

\* lines 338-349
CLoopQuery ==
  /\ pc = "query"
  /\ \E s \in {loopQuery(Cur)} :
       LET queried == Len(s.sent) > Len(sent) IN
       /\ Commit(s)
       /\ polled' = (polled \/ queried)
       /\ lastQueryAt' = IF queried THEN elapsed ELSE lastQueryAt
       /\ connSinceQuery' = (connSinceQuery /\ ~queried)
  /\ pc' = "check"
  /\ UNCHANGED <<cbPc, cbData, cbI, ticks, arrivals, delivered, ev, codecVars>>

\* line 352
CLoopCheck ==
  /\ pc = "check"
  /\ pc' = IF g_newDataAvailable THEN "reset" ELSE "delay"
  /\ UNCHANGED <<progVars, cbPc, cbData, cbI, histVars, codecVars>>

\* line 353
CLoopReset ==
  /\ pc = "reset"
  /\ \E s \in {loopReset(Cur)} : Commit(s)
  /\ pc' = "decode"
  /\ UNCHANGED <<cbPc, cbData, cbI, histVars, codecVars>>

\* lines 357-358
CLoopDecode ==
  /\ pc = "decode"
  /\ \E s \in {loopDecode(Cur)} : Commit(s)
  /\ pc' = "delay"
  /\ UNCHANGED <<cbPc, cbData, cbI, histVars, codecVars>>

\* line 415
CLoopDelay(ms) ==
  /\ pc = "delay"
  /\ \E s \in {loopDelay(Cur, ms)} : Commit(s)
  /\ pc' = "scan"
  /\ UNCHANGED <<cbPc, cbData, cbI, histVars, codecVars>>

\* the BLE task enters notifyCallback: line 190
CbEnter(pData) ==
  /\ cbPc = "idle"
  /\ notifyRegistered
  /\ \E s \in {notifyClear(Cur)} : Commit(s)
  /\ cbPc' = "copy" /\ cbData' = pData /\ cbI' = 0
  /\ delivered' = delivered \cup {pData}
  /\ UNCHANGED <<pc, ticks, arrivals, polled, lastQueryAt, connSinceQuery, ev,
                 codecVars>>

\* lines 193-195, one pass
CbPush ==
  /\ cbPc = "copy" /\ cbI < Len(cbData)
  /\ \E s \in {notifyPush(Cur, cbData, cbI)} : Commit(s)
  /\ cbI' = cbI + 1
  /\ UNCHANGED <<pc, cbPc, cbData, histVars, codecVars>>

\* line 198, and the return
CbFlag ==
  /\ cbPc = "copy" /\ cbI = Len(cbData)
  /\ \E s \in {notifyFlag(Cur)} : Commit(s)
  /\ cbPc' = "idle"
  /\ ev' = [NoEv EXCEPT !.op = "notify", !.phase = Phase, !.payload = cbData]
  /\ UNCHANGED <<pc, cbData, cbI, ticks, arrivals, delivered, polled, lastQueryAt,
                 connSinceQuery, codecVars>>

\* the link drops: onDisconnect in the BLE task, between two of its callbacks
CDisconnect ==
  /\ cbPc = "idle"
  /\ linkUp
  /\ \E s \in {onDisconnect([Cur EXCEPT !.linkUp = FALSE])} : Commit(s)
  /\ UNCHANGED <<taskVars, histVars, codecVars>>

ConcNext ==
  \/ \E target \in BOOLEAN, foundAfter \in FoundAfter : CLoopScan(target, foundAfter)
  \/ CLoopConnect
  \/ \E linkOk \in BOOLEAN : CCtsConnect(linkOk)
  \/ \E found \in ConcDiscoveries : CCtsDiscover(found)
  \/ CCtsSetConnected
  \/ CCtsBind
  \/ CCtsTimer
  \/ CLoopQuery
  \/ CLoopCheck
  \/ CLoopReset
  \/ CLoopDecode
  \/ CLoopDelay(LOOP_DELAY_MS)
  \/ \E pData \in Notifications : CbEnter(pData)
  \/ CbPush
  \/ CbFlag
  \/ CDisconnect

ConcSpec == ConcInit /\ [][ConcNext]_vars

(***************************************************************************)
(* CodecSpec: decodeFridgeQuerySingleZone applied to frames built from a   *)
(* well-formed frame by lengthening, overwriting a byte, cutting short,    *)
(* recomputing the trailing sum, and flipping one bit of an accepted frame *)
(***************************************************************************)

\* bytes appended to a 24-byte frame
MaxExtra == 2

BaseFrames ==
  {MkFrame(20, p) : p \in {PayloadTypical, PayloadOther, PayloadZero, PayloadFF}}

\* the caller's record before the call
CallerStatuses == {StackStatus, FridgeStatus(MkFrame(20, PayloadOther))}

SampleBytes == {0, 1, 2, 20, 254, 255}

\* b with the byte at C index i replaced by v
WithByte(b, i, v) == [b EXCEPT ![i + 1] = v]

\* v with bit k inverted
FlipBit(v, k) == IF (v \div (2 ^ k)) % 2 = 1 THEN v - 2 ^ k ELSE v + 2 ^ k

\* b with its last two bytes replaced by the 16-bit sum of the others
Resealed(b) ==
  LET n   == Len(b) - 2
      sum == SumBytes(SubSeq(b, 1, n)) % 65536
  IN SubSeq(b, 1, n) \o <<sum \div 256, sum % 256>>

CodecInit ==
  /\ SessionInit
  /\ clock = U32(0, 0)
  /\ rxData \in BaseFrames
  /\ rxStatus \in CallerStatuses
  /\ rxResult = <<>> /\ rxStage = "built" /\ rxPrev = <<>> /\ rxFlip = <<>>
  /\ rxSum = <<>>

CodecExtend(v) ==
  /\ rxStage = "built" /\ rxResult = <<>>
  /\ Len(rxData) < 24 + MaxExtra
  /\ rxData' = Append(rxData, v)
  /\ UNCHANGED <<rxStatus, rxResult, rxStage, rxPrev, rxFlip, rxSum>>
  /\ UNCHANGED <<progVars, taskVars, histVars>>

CodecSetByte(i, v) ==
  /\ rxStage = "built" /\ rxResult = <<>>
  /\ i \in {0, 1, 2, 3, Len(rxData) - 2, Len(rxData) - 1}
  /\ rxData' = WithByte(rxData, i, v)
  /\ rxStage' = "shaped"
  /\ UNCHANGED <<rxStatus, rxResult, rxPrev, rxFlip, rxSum>>
  /\ UNCHANGED <<progVars, taskVars, histVars>>

CodecTruncate(n) ==
  /\ rxStage = "built" /\ rxResult = <<>>
  /\ n < Len(rxData)
  /\ rxData' = SubSeq(rxData, 1, n)
  /\ rxStage' = "shaped"
  /\ UNCHANGED <<rxStatus, rxResult, rxPrev, rxFlip, rxSum>>
  /\ UNCHANGED <<progVars, taskVars, histVars>>

CodecReseal ==
  /\ rxStage \in {"built", "shaped"} /\ rxResult = <<>>
  /\ Len(rxData) >= 2
  /\ rxData' = Resealed(rxData)
  /\ rxStage' = "sealed"
  /\ UNCHANGED <<rxStatus, rxResult, rxPrev, rxFlip, rxSum>>
  /\ UNCHANGED <<progVars, taskVars, histVars>>

\* a well-formed 24-byte frame with one payload byte replaced and the trailing
\* sum recomputed: another well-formed frame
CodecVary(i, v) ==
  /\ rxStage = "built" /\ rxResult = <<>>
  /\ Len(rxData) = 24
  /\ i \in 4 .. 21
  /\ rxData' = Resealed(WithByte(rxData, i, v))
  /\ rxStage' = "varied"
  /\ UNCHANGED <<rxStatus, rxResult, rxPrev, rxFlip, rxSum>>
  /\ UNCHANGED <<progVars, taskVars, histVars>>

\* the call: decodeFridgeQuerySingleZone(data, length, status)
CodecDecode ==
  /\ rxResult = <<>>
  /\ rxResult' = <<decodeFridgeQuerySingleZone(rxData, rxStatus)>>
  /\ UNCHANGED <<rxData, rxStatus, rxStage, rxPrev, rxFlip, rxSum>>
  /\ UNCHANGED <<progVars, taskVars, histVars>>

\* one bit of an accepted frame is inverted, the trailing sum left as it was
CodecFlip(i, k) ==
  /\ rxResult # <<>> /\ rxResult[1].ok
  /\ rxStage \notin {"flipped", "varied"}
  /\ i < Len(rxData)
  /\ rxData' = WithByte(rxData, i, FlipBit(At(rxData, i), k))
  /\ rxPrev' = rxResult
  /\ rxFlip' = <<i, k>>
  /\ rxResult' = <<>>
  /\ rxStage' = "flipped"
  /\ UNCHANGED <<rxStatus, rxSum>>
  /\ UNCHANGED <<progVars, taskVars, histVars>>

CodecNext ==
  \/ \E v \in {0, 255} : CodecExtend(v)
  \/ \E i \in 0 .. 24 + MaxExtra, v \in SampleBytes : CodecSetByte(i, v)
  \/ \E n \in 0 .. 24 + MaxExtra : CodecTruncate(n)
  \/ CodecReseal
  \/ \E i \in 4 .. 21, v \in SampleBytes \cup {127, 128} : CodecVary(i, v)
  \/ CodecDecode
  \/ \E i \in 0 .. 24 + MaxExtra, k \in 0 .. 7 : CodecFlip(i, k)

CodecSpec == CodecInit /\ [][CodecNext]_vars

(***************************************************************************)
(* Properties                                                              *)
(***************************************************************************)

BindBytes == <<254, 254, 3, 1, 2, 0, 255>>
QueryBytes == <<254, 254, 3, 1, 2, 0>>

\* the gate of line 340 on the values the pass read at line 338-339
GateDue(g) ==
  /\ g.connected
  /\ g.write # NULLPTR
  /\ U32Geq(U32Sub(g.now, g.last), U32(0, 60000))

\* C1. Single-slot overwrite: a pass of loop() that follows notifications
\* decodes exactly the payload of the last of them, a pass that follows none
\* decodes nothing, and the pending flag is false after every pass.
C1_SingleSlotOverwrite ==
  ev.op = "loop" =>
    /\ ~g_newDataAvailable
    /\ ev.arrivals # <<>> => ev.drained = <<ev.arrivals[Len(ev.arrivals)]>>
    /\ ev.arrivals = <<>> => ev.drained = <<>>

C1_Witness ==
  /\ ev.op = "loop"
  /\ Len(ev.arrivals) = 2
  /\ ev.arrivals[1] # ev.arrivals[2]
  /\ ev.drained = <<ev.arrivals[2]>>

\* C2. First contact: a pass that starts Disconnected and whose connect and
\* discovery succeed leaves connectToServer with connected = true and exactly
\* one frame sent, the Bind bytes, and with the timer due, so that the gate
\* that follows sends a Query.
C2_FirstContact ==
  (ev.op = "loop" /\ ev.attempt \in Resolved) =>
    /\ ev.phase = "Disconnected"
    /\ ev.connected
    /\ ev.connSent = <<BindBytes>>
    /\ GateDue(ev.gate)
    /\ ev.queried
    /\ sent = <<BindBytes, QueryBytes>>

C2_Witness ==
  /\ ev.op = "loop" /\ ev.attempt = "notify"
  /\ connected
  /\ sent = <<BindBytes, QueryBytes>>

\* C3. Query gate: a pass sends a Query if and only if, at its gate, the
\* session is connected with a write characteristic and 60000 ms or more
\* have passed since lastQueryMillis; then lastQueryMillis is the time read,
\* otherwise it is what it was and no Query is among the frames sent.
C3_QueryGate ==
  ev.op = "loop" =>
    /\ ev.queried <=> GateDue(ev.gate)
    /\ ev.queried =>
         /\ lastQueryMillis = ev.gate.now
         /\ sent # <<>> /\ sent[Len(sent)] = QueryBytes
    /\ ~ev.queried =>
         /\ lastQueryMillis = ev.gate.last
         /\ lastQueryMillis = ev.lastAtStart
         /\ \A i \in 1 .. Len(sent) : sent[i] # QueryBytes
    /\ ~ev.gate.connected => ~ev.queried

C3_Witness ==
  /\ ev.op = "loop"
  /\ ev.gate.connected /\ ev.gate.write # NULLPTR
  /\ ~ev.queried
  /\ U32Sub(ev.gate.now, ev.gate.last) = U32(0, 59900)

\* C4 as claimed: any two consecutive Queries are at least 60000 ms apart,
\* whatever happens between them.
C4_AnyTwoQueriesApart ==
  (ev.op = "loop" /\ ev.queried /\ ev.gap >= 0) => ev.gap >= 60000

\* C4 amended: two consecutive Queries with no successful connectToServer
\* between them are at least 60000 ms apart.
C4_QueriesOfOneConnectionApart ==
  (ev.op = "loop" /\ ev.queried /\ ev.gap >= 0 /\ ~ev.reconnected) =>
    ev.gap >= 60000

C4_Witness ==
  /\ ev.op = "loop" /\ ev.queried
  /\ ~ev.reconnected
  /\ ev.gap = 60000

\* C5. A disconnect event in Bound or Polling leaves connected false and both
\* characteristic pointers null.
C5_DisconnectClearsHandles ==
  (ev.op = "disconnect" /\ ev.phase \in {"Bound", "Polling"}) =>
    /\ ~connected
    /\ pRemoteCharacteristicWrite = NULLPTR
    /\ pRemoteCharacteristicNotify = NULLPTR

\* C6. The bytes loop() passes to the decoder are the complete payload of a
\* notification that was delivered.
C6_DecodesWholeNotification ==
  decoded # <<>> => decoded[1] \in delivered

\* C7. A connection attempt that fails (no link, no service, no write or no
\* notify characteristic) sends no frame and leaves connected false.
C7_FailedAttemptIsClean ==
  (ev.op = "loop" /\ ev.attempt \in {"connectFailed"} \cup NotResolved) =>
    /\ ~ev.connected
    /\ ~connected
    /\ ev.connSent = <<>>
    /\ ~ev.queried
    /\ sent = <<>>

C7_Witness ==
  /\ ev.op = "loop" /\ ev.attempt = "noNotify"
  /\ pRemoteCharacteristicWrite = CHARACTERISTIC
  /\ ~connected

\* C8. In every phase, the steps of notifyCallback leave connected, doConnect,
\* the characteristic pointers, lastQueryMillis and the loop task alone, and
\* when the callback returns the buffer holds the delivered bytes and the
\* pending flag is set.
C8_NotifyFrame ==
  [][ (cbPc' # cbPc \/ cbI' # cbI) =>
        /\ UNCHANGED <<connected, doConnect, pRemoteCharacteristicWrite,
                       pRemoteCharacteristicNotify, lastQueryMillis, linkUp,
                       pc, polled>>
        /\ cbPc' = "idle" =>
             /\ g_lastNotificationData' = cbData
             /\ g_newDataAvailable' ]_vars

C8_Witness ==
  /\ ev.op = "notify" /\ ev.phase = "Connecting"
  /\ cbPc = "idle"
  /\ g_lastNotificationData = ev.payload
  /\ g_newDataAvailable

\* what the decoder is said to accept
WellFormed(b) ==
  /\ Len(b) >= 24
  /\ b[1] = 254 /\ b[2] = 254
  /\ b[4] = 1
  /\ b[Len(b) - 1] * 256 + b[Len(b)] = SumBytes(SubSeq(b, 1, Len(b) - 2)) % 65536

\* C9. The decoder accepts a byte sequence if and only if it has 24 bytes or
\* more, starts FE FE, has 01 as its fourth byte and ends with the 16-bit sum
\* of the bytes before, high byte first.
C9_DecodeAccepts ==
  rxResult # <<>> => (rxResult[1].ok <=> WellFormed(rxData))

C9_Witness ==
  /\ rxResult # <<>> /\ ~rxResult[1].ok
  /\ Len(rxData) >= 24
  /\ rxData[1] = 254 /\ rxData[2] = 254
  /\ rxData[4] = 2
  /\ rxData = Resealed(rxData)

\* C10. One bit inverted in the length byte or in one of the 18 payload bytes
\* of an accepted frame, the trailing sum left alone, makes the decoder return
\* false at the checksum test and leaves the caller's record unwritten.
C10_TamperDetected ==
  (/\ rxResult # <<>> /\ rxStage = "flipped"
   /\ rxPrev[1].ok
   /\ rxFlip[1] \in {2} \cup 4 .. 21) =>
    /\ ~rxResult[1].ok
    /\ rxResult[1].line = 119
    /\ rxResult[1].status = rxStatus

C10_Witness ==
  /\ rxResult # <<>> /\ rxStage = "flipped"
  /\ rxPrev[1].ok
  /\ rxFlip = <<2, 7>>
  /\ rxResult[1].line = 119

(***************************************************************************)
(* PureSpec: calculateChecksum, buildQueryCommand and buildBindCommand     *)
(* applied to buffers of 0 .. MaxFill bytes.  255 * 258 > 65535, so the    *)
(* longest buffers carry sums that do not fit 16 bits.                     *)
(***************************************************************************)

\* longest buffer handed to calculateChecksum
MaxFill == 260

\* n bytes, a and b in turn
Fill(n, a, b) == [i \in 1 .. n |-> IF i % 2 = 1 THEN a ELSE b]

FillPairs == {<<0, 0>>, <<255, 255>>, <<254, 3>>, <<1, 255>>}

PureInputs == {Fill(n, p[1], p[2]) : n \in 0 .. MaxFill, p \in FillPairs}

PureInit ==
  /\ SessionInit
  /\ clock = U32(0, 0)
  /\ rxData \in PureInputs
  /\ rxStatus = StackStatus
  /\ rxResult = <<>> /\ rxStage = "input" /\ rxPrev = <<>> /\ rxFlip = <<>>
  /\ rxSum = <<>>

\* the call: calculateChecksum(buf, len) over the whole buffer
PureChecksum ==
  /\ rxSum = <<>>
  /\ rxSum' = <<calculateChecksum(rxData, Len(rxData))>>
  /\ UNCHANGED <<rxData, rxStatus, rxResult, rxStage, rxPrev, rxFlip>>
  /\ UNCHANGED <<progVars, taskVars, histVars>>

\* the call: buildQueryCommand(packet), the buffer being the packet; rxPrev
\* keeps what the packet held before
PureBuildQuery ==
  /\ rxStage # "query"
  /\ rxData' = buildQueryCommand(rxData)
  /\ rxStage' = "query"
  /\ rxPrev' = <<rxData>>
  /\ rxSum' = <<>>
  /\ UNCHANGED <<rxStatus, rxResult, rxFlip>>
  /\ UNCHANGED <<progVars, taskVars, histVars>>

\* the call: buildBindCommand(packet)
PureBuildBind ==
  /\ rxStage # "bind"
  /\ rxData' = buildBindCommand(rxData)
  /\ rxStage' = "bind"
  /\ rxPrev' = <<rxData>>
  /\ rxSum' = <<>>
  /\ UNCHANGED <<rxStatus, rxResult, rxFlip>>
  /\ UNCHANGED <<progVars, taskVars, histVars>>

PureNext ==
  \/ PureChecksum
  \/ PureBuildQuery
  \/ PureBuildBind

PureSpec == PureInit /\ [][PureNext]_vars

\* the two's-complement reading of a byte
Signed8(b) == b - 256 * (b \div 128)

\* the frame under decode is FE FE 14 01 + 18 bytes + the big-endian sum of
\* its first 22 bytes
RoundTripFrame ==
  /\ Len(rxData) = 24
  /\ SubSeq(rxData, 1, 4) = <<254, 254, 20, 1>>
  /\ rxData[23] * 256 + rxData[24] = SumBytes(SubSeq(rxData, 1, 22)) % 65536

\* C11: a frame FE FE 14 01 + 18 payload bytes + the big-endian 16-bit sum of
\* its first 22 bytes decodes successfully, and every field of the record
\* equals its payload byte: locked and poweredOn are true iff the byte is 1,
\* the eight temperature fields are the byte read as signed 8-bit, the other
\* eight are the byte unsigned.
C11_RoundTrip ==
  (rxResult # <<>> /\ RoundTripFrame) =>
    LET st == rxResult[1].status
        p  == SubSeq(rxData, 5, 22)
    IN /\ rxResult[1].ok
       /\ st.locked = (p[1] = 1)
       /\ st.poweredOn = (p[2] = 1)
       /\ st.runMode = p[3]
       /\ st.batSaver = p[4]
       /\ st.leftTarget = Signed8(p[5])
       /\ st.tempMax = Signed8(p[6])
       /\ st.tempMin = Signed8(p[7])
       /\ st.leftRetDiff = p[8]
       /\ st.startDelay = p[9]
       /\ st.unit = p[10]
       /\ st.leftTCHot = Signed8(p[11])
       /\ st.leftTCMid = Signed8(p[12])
       /\ st.leftTCCold = Signed8(p[13])
       /\ st.leftTCHalt = Signed8(p[14])
       /\ st.leftCurrent = Signed8(p[15])
       /\ st.batPercent = p[16]
       /\ st.batVolInt = p[17]
       /\ st.batVolDec = p[18]

\* a round-trip frame with a negative temperature and a set flag was decoded
C11_Witness ==
  /\ rxResult # <<>> /\ RoundTripFrame
  /\ rxStage = "varied"
  /\ rxResult[1].ok
  /\ rxResult[1].status.locked
  /\ rxResult[1].status.leftCurrent = -128
  /\ rxResult[1].status.tempMin = -10

\* C12: when the decoder rejects its input, the caller's status record is
\* what it was before the call: no field has been written.
C12_NoPartialDecode ==
  (rxResult # <<>> /\ ~rxResult[1].ok) => rxResult[1].status = rxStatus

\* a frame rejected at the checksum test, the last one before the fields are
\* written, whose payload differs from the caller's record
C12_Witness ==
  /\ rxResult # <<>> /\ ~rxResult[1].ok
  /\ rxResult[1].line = 119
  /\ FridgeStatus(rxData) # rxStatus
  /\ rxResult[1].status = rxStatus

\* C13: calculateChecksum returns the low 16 bits of the sum of all the bytes
\* of its input, and 0 for the empty input.
C13_Checksum ==
  rxSum # <<>> =>
    /\ rxSum[1] = SumBytes(rxData) % 65536
    /\ rxData = <<>> => rxSum[1] = 0

\* the checksum of a buffer whose bytes add up to more than 16 bits hold
C13_Witness ==
  /\ rxSum # <<>>
  /\ SumBytes(rxData) >= 65536
  /\ rxSum[1] = SumBytes(rxData) - 65536

\* the checksum of the empty buffer was taken
C13_WitnessEmpty == rxSum = <<0>> /\ rxData = <<>> /\ rxStage = "input"

\* C14: buildBindCommand leaves exactly FE FE 03 01 02 00 FF and
\* buildQueryCommand exactly FE FE 03 01 02 00 in the packet, whatever it
\* held before; no checksum follows.
C14_Literals ==
  /\ rxStage = "bind" => rxData = <<254, 254, 3, 1, 2, 0, 255>>
  /\ rxStage = "query" => rxData = <<254, 254, 3, 1, 2, 0>>

\* buildBindCommand has run on a packet that held more than a frame
C14_Witness ==
  /\ rxStage = "bind" /\ Len(rxData) = 7
  /\ rxPrev # <<>> /\ Len(rxPrev[1]) > 7

\* buildQueryCommand has run on the packet buildBindCommand left
C14_WitnessQuery ==
  /\ rxStage = "query" /\ Len(rxData) = 6
  /\ rxPrev = <<<<254, 254, 3, 1, 2, 0, 255>>>>

\* C15: the frames handed to the transport since the link was last opened are
\* one Bind followed by Queries only: no Query comes before the Bind, no
\* second Bind follows, and a session that is connected has sent its Bind
\* (connectToServer sends it right after setting connected).
C15_FrameOrder ==
  /\ connFrames # <<>> =>
       /\ connFrames[1] = BindBytes
       /\ \A i \in 2 .. Len(connFrames) : connFrames[i] = QueryBytes
  /\ (connected /\ pc # "cts_bind") => connFrames # <<>>

\* a second connection, after a first that carried a Bind and a Query, has
\* carried its own Bind and a Query
C15_Witness ==
  /\ connFrames = <<BindBytes, QueryBytes>>
  /\ connected
  /\ ev.op = "loop" /\ ev.attempt \in Resolved /\ ev.phase = "Disconnected"
  /\ ev.queried /\ ev.gap >= 0

Failed == NotResolved \cup {"connectFailed"}

\* C16: a pass of loop() calls connectToServer at most once, and only when
\* its own scan has just reported the target (no request is left pending
\* from an earlier pass); a failed attempt leaves the session not connected
\* with no request pending, and every pass that starts in that condition
\* starts a scan; a pass that starts connected does not scan.
C16_NoRetry ==
  /\ [](/\ attempts <= 1
        /\ (pc = "scan" => ~doConnect)
        /\ (ev.op = "loop" /\ ev.attempt # "none") => (ev.scanned /\ attempts = 1)
        /\ (ev.op = "loop" /\ ev.attempt \in Failed) => (~connected /\ ~doConnect))
  /\ [][ticks' = ticks + 1 => (ev'.op = "loop" /\ ev'.scanned = ~connected)]_vars

\* the last attempt failed at the notify characteristic, and a later pass has
\* scanned again without hearing the target
C16_Witness ==
  /\ ev.op = "loop" /\ ev.scanned /\ ev.attempt = "none"
  /\ attempts = 0
  /\ pRemoteCharacteristicWrite = CHARACTERISTIC
  /\ pRemoteCharacteristicNotify = NULLPTR
  /\ ~connected

\* C17: on the wrapping 32-bit clock, the gate of the pass that has just
\* connected is open whatever the clock reads (also below 60000, where
\* now - 60000 wraps), and on a later pass of the same connection the gate is
\* open exactly when 60000 ms or more have really passed since the last Query,
\* also when the clock has wrapped past 2^32 since then.
C17_WrapSafe ==
  (ev.op = "loop" /\ ev.gate.connected /\ ev.gate.write # NULLPTR) =>
    /\ ev.attempt \in Resolved => (GateDue(ev.gate) /\ ev.queried)
    /\ (~ev.reconnected /\ ev.sinceQuery >= 0) =>
         /\ GateDue(ev.gate) <=> ev.sinceQuery >= QUERY_INTERVAL_MS
         /\ ev.queried <=> ev.sinceQuery >= QUERY_INTERVAL_MS

\* a Query sent exactly 60000 ms after the previous one, the clock having
\* wrapped in between
C17_Witness ==
  /\ ev.op = "loop" /\ ev.queried /\ ~ev.reconnected
  /\ ev.sinceQuery = QUERY_INTERVAL_MS
  /\ ev.gate.last.hi = 65535 /\ ev.gate.now.hi = 0

\* the session connected with the clock below 60000 and queried in that pass
C17_WitnessEarlyClock ==
  /\ ev.op = "loop" /\ ev.attempt \in Resolved /\ ev.queried
  /\ ev.gate.now = U32(0, 1200)
  /\ ev.gate.last.hi = 65535

\* the gate stayed shut 59900 ms after the previous Query, across the wrap
C17_WitnessShut ==
  /\ ev.op = "loop" /\ ~ev.queried /\ ~ev.reconnected /\ ev.gate.connected
  /\ ev.sinceQuery = 59900
  /\ ev.gate.last.hi = 65535 /\ ev.gate.now.hi = 0

\* C18: once the disconnect event of a link has been delivered the session
\* is not connected on that link any more: in particular no Query is handed
\* to the transport while the link whose onDisconnect has run is the current
\* one, also when the event arrives while connectToServer is still running.
C18_NoQueryAfterDisconnect ==
  [][ (connFrames' # connFrames /\ connFrames' # <<>>
       /\ connFrames'[Len(connFrames')] = QueryBytes) => linkUp' ]_vars

\* the state the race leaves behind: connected set on a link that has dropped,
\* with the loop back at the top of a pass
C18_StaleConnected == connected /\ ~linkUp /\ pc = "scan" /\ polled

\* C19: a delivered notification is decoded at most once: when loop() hands
\* the buffer to the decoder while no callback is writing it, the buffer
\* holds a notification that no earlier pass has decoded.
C19_DecodedOnce ==
  [][ (pc = "decode" /\ pc' = "delay" /\ cbPc = "idle") => fresh ]_vars

(***************************************************************************)
(* LiveSpec: the two tasks of ConcSpec with loop() called for ever, as the  *)
(* Arduino core does.  To keep the state space finite the clock is held    *)
(* still (the drain of lines 352-358 does not read it) and each payload of *)
(* Notifications is delivered at most once.  The loop task always takes    *)
(* its next step and a callback that has started runs to its end; nothing  *)
(* obliges the fridge to notify or the link to drop.                       *)
(***************************************************************************)

\* s with the clock as it is now
Frozen(s) == [s EXCEPT !.clock = clock, !.elapsed = elapsed]

\* lines 325-329
LLoopScan(target) ==
  /\ pc = "scan"
  /\ (connected \/ doConnect) => ~target
  /\ \E s \in {Frozen(loopScan(loopBegin(Cur), target, 0))} : Commit(s)
  /\ pc' = "connect"
  /\ UNCHANGED <<cbPc, cbData, cbI, histVars, codecVars>>

\* line 415
LLoopDelay ==
  /\ pc = "delay"
  /\ \E s \in {Frozen(loopDelay(Cur, LOOP_DELAY_MS))} : Commit(s)
  /\ pc' = "scan"
  /\ UNCHANGED <<cbPc, cbData, cbI, histVars, codecVars>>

\* the BLE task enters notifyCallback with a payload not delivered before
LCbEnter(pData) ==
  /\ pData \notin delivered
  /\ CbEnter(pData)

LoopStep ==
  \/ \E target \in BOOLEAN : LLoopScan(target)
  \/ CLoopConnect
  \/ \E linkOk \in BOOLEAN : CCtsConnect(linkOk)
  \/ \E found \in ConcDiscoveries : CCtsDiscover(found)
  \/ CCtsSetConnected
  \/ CCtsBind
  \/ CCtsTimer
  \/ CLoopQuery
  \/ CLoopCheck
  \/ CLoopReset
  \/ CLoopDecode
  \/ LLoopDelay

LiveNext ==
  \/ LoopStep
  \/ \E pData \in Notifications : LCbEnter(pData)
  \/ CbPush
  \/ CbFlag
  \/ CDisconnect

LiveSpec ==
  /\ ConcInit
  /\ [][LiveNext]_vars
  /\ WF_vars(LoopStep)
  /\ WF_vars(CbPush)
  /\ WF_vars(CbFlag)

\* C20: a notification whose callback has returned is decoded by loop() in
\* full unless another notification arrives first, so the last one is never
\* lost; and once notifications stop, the pending flag becomes false and
\* stays false.  This holds whatever the connection state and however the
\* callback interleaves with loop().
C20_LatestDecoded ==
  /\ \A n \in Notifications :
       (cbPc = "idle" /\ fresh /\ ev.payload = n)
         ~> ((~fresh /\ decoded = <<n>>) \/ cbPc = "copy")
  /\ <>[](~g_newDataAvailable)

\* both notifications have been delivered, the last one after the link had
\* dropped, and loop() has decoded it whole and left the flag clear
C20_Witness ==
  /\ delivered = Notifications
  /\ ev.op = "notify" /\ ev.phase = "Disconnected"
  /\ cbPc = "idle" /\ ~fresh /\ ~g_newDataAvailable
  /\ decoded = <<ev.payload>>
  /\ ~connected /\ ~linkUp

====
